---- MODULE Spec2Model ----
(***************************************************************************)
(* A CRAQ replica node (node/node.go) in a chain managed by a coordinator. *)
(* The node's own code (ConnectToCoordinator, connectToNode, fullPropagate *)
(* and the propagation helpers) is translated step by step.  The store,    *)
(* the RPC handlers of the write and read paths and the coordinator are    *)
(* collaborators whose code is not in node.go; they follow sections 4.1 to *)
(* 4.4 and 6 of the specification.                                         *)
(*                                                                         *)
(* A path is a node id, 0 is the empty path "".  An item's value is        *)
(* determined by its (key, version), so items carry no value field.        *)
(***************************************************************************)
EXTENDS Integers, Sequences, FiniteSets, TLC

NumNodes == 2
NumKeys == 1
MaxVersion == 2
MaxAnnounce == 3
MaxCrash == 1
MaxReconnect == 4
MaxChurn == 2
MaxEvents == 1

Nodes == 1..NumNodes
Keys == 1..NumKeys

NoPath == 0
NilClient == 0
NeighborPosPrev == "prev"
NeighborPosTail == "tail"
Positions == {NeighborPosPrev, NeighborPosTail}

VARIABLES
    chain,      \* coordinator: the chain, head first
    pc,         \* per node: position in ListenAndServe / ConnectToCoordinator
    startup,    \* per node: the running ConnectToCoordinator was called by ListenAndServe
    reply,      \* per node: craqrpc.NodeMeta received from AddNode
    err,        \* per node: ConnectToCoordinator is about to return an error
    isHead, isTail,
    installed,  \* per node: role bits were installed since the process started
    neighbors,  \* per node: position -> neighbor{client, path}
    conns,      \* per node: every client opened by connectToNode, by handle
    store,      \* per node: set of Items
    latest,     \* per node: key -> latest version
    args,       \* per node: craqrpc.PropagateRequest of the running catch-up
    rsp,        \* per node: craqrpc.PropagateResponse of the running catch-up
    wq, cq,     \* per node: forwarded Write / Commit calls not yet handled
    acked,      \* key -> highest version whose write was acknowledged
    nAnn, nCrash,
    cu,         \* per node: catch-up of the running call: none, run, ok, err
    cuOwn,      \* per node: the node's store when fullPropagate was entered
    cuStable,   \* per node: the predecessor's store is unchanged since then
    everDirty,  \* per node: every <<key, version>> Store.Write inserted
    settled,    \* per node: no, run, yes: the role installed by the last call is
                \* unchanged (run) and the call returned nil after a catch-up (yes)
    ev,         \* per node: the connectToNode call of the coordinator push
                \* (UpdateNeighbor) being handled: its position and locals
    nEv,
    pre         \* per node: isHead, isTail and the neighbor table as they were
                \* before the running ConnectToCoordinator assigned them

vars == <<chain, pc, startup, reply, err, isHead, isTail, installed, neighbors,
          conns, store, latest, args, rsp, wq, cq, acked, nAnn, nCrash, cu,
          cuOwn, cuStable, everDirty, settled, ev, nEv, pre>>

(***************************************************************************)
(* Helpers                                                                 *)
(***************************************************************************)
Max(S) == IF S = {} THEN 0 ELSE CHOOSE x \in S : \A y \in S : y <= x

Range(q) == {q[i] : i \in 1..Len(q)}

RECURSIVE Without(_, _)
Without(q, x) ==
    IF q = <<>> THEN <<>>
    ELSE IF Head(q) = x THEN Without(Tail(q), x)
    ELSE <<Head(q)>> \o Without(Tail(q), x)

IndexOf(q, x) == CHOOSE i \in 1..Len(q) : q[i] = x

\* The RPC server of a node is up from ListenAndServe to its shutdown.
Listening(n) == n \in Nodes /\ pc[n] \notin {"new", "exited"}

Serving(n) == Listening(n) /\ installed[n]

(***************************************************************************)
(* Store (specification 4.1)                                               *)
(***************************************************************************)
Item(k, v, c) == [Key |-> k, Version |-> v, Committed |-> c]

Has(s, k, v) == \E i \in s : i.Key = k /\ i.Version = v

StoreWrite(s, k, v) == s \cup {Item(k, v, FALSE)}

StoreCommit(s, k, v) ==
    {IF i.Key = k /\ i.Version = v THEN Item(k, v, TRUE) ELSE i : i \in s}

AllDirty(s) == {i \in s : ~i.Committed}

AllCommitted(s) == {i \in s : i.Committed}

Newer(rq, i) == i.Key \notin DOMAIN rq \/ i.Version > Max(rq[i.Key])

AllNewerDirty(s, rq) == {i \in AllDirty(s) : Newer(rq, i)}

AllNewerCommitted(s, rq) == {i \in AllCommitted(s) : Newer(rq, i)}

VersionsOf(s, k) == {i.Version : i \in {j \in s : j.Key = k}}

CommittedOf(s, k) == {i.Version : i \in {j \in AllCommitted(s) : j.Key = k}}

DirtyOf(s, k) == {i.Version : i \in {j \in AllDirty(s) : j.Key = k}}

\* Store.Read: 0 is not-found, -1 is ErrDirtyItem, else the newest committed
\* version.
StoreRead(s, k) ==
    IF VersionsOf(s, k) = {} THEN 0
    ELSE IF Max(VersionsOf(s, k)) \in DirtyOf(s, k) THEN -1
    ELSE Max(CommittedOf(s, k))

(***************************************************************************)
(* Coordinator (specification 4.6, 6)                                      *)
(***************************************************************************)
NodeMeta(ch, n) ==
    LET i == IndexOf(ch, n) IN
    [IsHead |-> i = 1,
     IsTail |-> i = Len(ch),
     Prev   |-> IF i = 1 THEN NoPath ELSE ch[i - 1],
     Tail   |-> ch[Len(ch)]]

AddNode(ch, n) == IF n \in Range(ch) THEN ch ELSE Append(ch, n)

NoMeta == [IsHead |-> FALSE, IsTail |-> FALSE, Prev |-> NoPath, Tail |-> NoPath]

Succ(n) ==
    IF n \in Range(chain) /\ IndexOf(chain, n) < Len(chain)
    THEN chain[IndexOf(chain, n) + 1] ELSE NoPath

Pred(n) ==
    IF n \in Range(chain) /\ IndexOf(chain, n) > 1
    THEN chain[IndexOf(chain, n) - 1] ELSE NoPath

TailNode == IF chain = <<>> THEN NoPath ELSE chain[Len(chain)]

\* The coordinator pushes the roles of the chain ch to every member that has
\* installed a role (who); the other nodes keep their bits.
PushHead(ch, who) ==
    [m \in Nodes |-> IF m \in Range(ch) /\ m \in who THEN ch[1] = m ELSE isHead[m]]

PushTail(ch, who) ==
    [m \in Nodes |-> IF m \in Range(ch) /\ m \in who THEN ch[Len(ch)] = m ELSE isTail[m]]

Installed == {m \in Nodes : installed[m]}

(***************************************************************************)
(* Connections (transport.Client)                                          *)
(***************************************************************************)
NoNeighbor == [client |-> NilClient, path |-> NoPath]

Close(cs, h) == [cs EXCEPT ![h].closes = @ + 1]

Usable(n, h) ==
    h # NilClient /\ conns[n][h].closes = 0 /\ ~conns[n][h].broken

\* A connectToNode that closes the installed client before it connects.
connectToNodeCloseFirst(n, path, pos) ==
    LET nbr == neighbors[n][pos]
        closed == IF nbr.client # NilClient
                  THEN Close(conns[n], nbr.client) ELSE conns[n]
        opened == Append(closed, [pos |-> pos, to |-> path,
                                  closes |-> 0, broken |-> FALSE])
    IN IF ~Listening(path)
       THEN [ok |-> FALSE, nbrs |-> neighbors[n], conns |-> closed]
       ELSE [ok |-> TRUE,
             nbrs |-> [neighbors[n] EXCEPT
                          ![pos] = [client |-> Len(opened), path |-> path]],
             conns |-> opened]

\* connectToNode: the neighbor table and the clients of n after the call.
connectToNode(n, path, pos) ==
    IF ~Listening(path)
    THEN [ok |-> FALSE, nbrs |-> neighbors[n], conns |-> conns[n]]
    ELSE LET nbr == neighbors[n][pos]
             closed == IF nbr.client # NilClient
                       THEN Close(conns[n], nbr.client) ELSE conns[n]
             opened == Append(closed, [pos |-> pos, to |-> path,
                                       closes |-> 0, broken |-> FALSE])
         IN [ok |-> TRUE,
             nbrs |-> [neighbors[n] EXCEPT
                          ![pos] = [client |-> Len(opened), path |-> path]],
             conns |-> opened]

NoPre == [isHead |-> FALSE, isTail |-> FALSE,
          neighbors |-> [p \in Positions |-> NoNeighbor]]

\* isHead, isTail and the neighbor table of n now.
Snapshot(n) == [isHead |-> isHead[n], isTail |-> isTail[n], neighbors |-> neighbors[n]]

\* No coordinator push is being handled.
NoEvent == [pc |-> "idle", path |-> NoPath, pos |-> NeighborPosPrev,
            nbr |-> NoNeighbor, client |-> NilClient]

(***************************************************************************)
(* Propagation helpers                                                     *)
(***************************************************************************)
propagateRequestFromItems(items) ==
    [k \in {i.Key : i \in items} |->
        {i.Version : i \in {j \in items : j.Key = k}}]

RECURSIVE Ascending(_)
Ascending(S) ==
    IF S = {} THEN <<>>
    ELSE LET m == CHOOSE i \in S : \A j \in S : i.Version <= j.Version
         IN <<m>> \o Ascending(S \ {m})

KeyOrders == {f \in [1..NumKeys -> Keys] : \A i, j \in 1..NumKeys : f[i] = f[j] => i = j}

RECURSIVE InOrder(_, _, _)
InOrder(S, f, i) ==
    IF i > NumKeys THEN <<>>
    ELSE Ascending({x \in S : x.Key = f[i]}) \o InOrder(S, f, i + 1)

RECURSIVE writePropagated(_, _)
writePropagated(s, q) ==
    IF q = <<>> THEN [store |-> s, err |-> FALSE]
    ELSE IF Has(s, Head(q).Key, Head(q).Version) THEN [store |-> s, err |-> TRUE]
    ELSE writePropagated(StoreWrite(s, Head(q).Key, Head(q).Version), Tail(q))

\* A commitPropagated that stores the item it is told to commit when the
\* store does not hold it.
RECURSIVE commitPropagatedUpsert(_, _)
commitPropagatedUpsert(s, q) ==
    IF q = <<>> THEN [store |-> s, err |-> FALSE]
    ELSE LET k == Head(q).Key
             v == Head(q).Version
             held == IF Has(s, k, v) THEN s ELSE StoreWrite(s, k, v)
         IN commitPropagatedUpsert(StoreCommit(held, k, v), Tail(q))

RECURSIVE commitPropagated(_, _)
commitPropagated(s, q) ==
    IF q = <<>> THEN [store |-> s, err |-> FALSE]
    ELSE IF ~Has(s, Head(q).Key, Head(q).Version) THEN [store |-> s, err |-> TRUE]
    ELSE commitPropagated(StoreCommit(s, Head(q).Key, Head(q).Version), Tail(q))

\* fullPropagate of a node whose store is s against a predecessor whose
\* store is p and does not change, nothing else touching s meanwhile; the
\* replies are applied in the key order f.
fullPropagate(s, p, f) ==
    LET fwd == AllNewerDirty(p, propagateRequestFromItems(AllDirty(s)))
        w == writePropagated(s, InOrder(fwd, f, 1))
        back == AllNewerCommitted(p, propagateRequestFromItems(AllCommitted(w.store)))
    IN IF w.err THEN w ELSE commitPropagated(w.store, InOrder(back, f, 1))

(***************************************************************************)
(* Bookkeeping of the catch-up in progress                                 *)
(***************************************************************************)
InCatchUp(m) ==
    pc[m] \in {"fwdcall", "fwdapply", "backcall", "backapply", "ret"}

\* cuStable after the store of p changed.
Touch(p) ==
    [m \in Nodes |->
        cuStable[m] /\ ~(InCatchUp(m) /\ neighbors[m][NeighborPosPrev].path = p)]

KV(s) == {<<i.Key, i.Version>> : i \in s}

(***************************************************************************)
(* Initial state: New(opts) for every node, an empty chain                 *)
(***************************************************************************)
Init ==
    /\ chain = <<>>
    /\ pc = [n \in Nodes |-> "new"]
    /\ startup = [n \in Nodes |-> FALSE]
    /\ reply = [n \in Nodes |-> NoMeta]
    /\ err = [n \in Nodes |-> FALSE]
    /\ isHead = [n \in Nodes |-> FALSE]
    /\ isTail = [n \in Nodes |-> FALSE]
    /\ installed = [n \in Nodes |-> FALSE]
    /\ neighbors = [n \in Nodes |-> [p \in Positions |-> NoNeighbor]]
    /\ conns = [n \in Nodes |-> <<>>]
    /\ store = [n \in Nodes |-> {}]
    /\ latest = [n \in Nodes |-> [k \in Keys |-> 0]]
    /\ args = [n \in Nodes |-> <<>>]
    /\ rsp = [n \in Nodes |-> {}]
    /\ wq = [n \in Nodes |-> <<>>]
    /\ cq = [n \in Nodes |-> <<>>]
    /\ acked = [k \in Keys |-> 0]
    /\ nAnn = 0
    /\ nCrash = 0
    /\ cu = [n \in Nodes |-> "none"]
    /\ cuOwn = [n \in Nodes |-> {}]
    /\ cuStable = [n \in Nodes |-> FALSE]
    /\ everDirty = [n \in Nodes |-> {}]
    /\ settled = [n \in Nodes |-> "no"]
    /\ ev = [n \in Nodes |-> NoEvent]
    /\ nEv = 0
    /\ pre = [n \in Nodes |-> NoPre]

roleVars == <<isHead, isTail, installed>>
dataVars == <<store, latest, everDirty>>
chanVars == <<wq, cq, acked>>
callVars == <<args, rsp>>
cuVars == <<cu, cuOwn, cuStable>>
boundVars == <<nAnn, nCrash>>
evVars == <<ev, nEv>>

\* settled after the roles changed from (isHead, isTail) to (h, t).
Unsettle(h, t) ==
    [m \in Nodes |-> IF h[m] = isHead[m] /\ t[m] = isTail[m] THEN settled[m] ELSE "no"]

(***************************************************************************)
(* ConnectToCoordinator                                                    *)
(***************************************************************************)
\* ListenAndServe starts the server and calls ConnectToCoordinator; a running
\* node calls it again on reconnection.  transport.Connect(n.CdrPath).
Announce(n, max) ==
    /\ pc[n] \in {"new", "ready"}
    /\ nAnn < max
    /\ nAnn' = nAnn + 1
    /\ startup' = [startup EXCEPT ![n] = pc[n] = "new"]
    /\ pc' = [pc EXCEPT ![n] = "addnode"]
    /\ settled' = [settled EXCEPT ![n] = "no"]
    /\ pre' = [pre EXCEPT ![n] = Snapshot(n)]
    /\ UNCHANGED <<chain, reply, err, roleVars, neighbors, conns, dataVars,
                   chanVars, callVars, cuVars, nCrash, evVars>>

CtcConnect(n) == Announce(n, MaxAnnounce)

\* cdrClient.Call("RPC.AddNode", n.Path, &reply); n.isHead = reply.IsHead;
\* n.isTail = reply.IsTail; n.neighbors[NeighborPosTail] = neighbor{path:
\* reply.Tail}.  The coordinator tells the other members their roles before
\* it replies.
CtcAddNode(n) ==
    /\ pc[n] = "addnode"
    /\ chain' = AddNode(chain, n)
    /\ reply' = [reply EXCEPT ![n] = NodeMeta(chain', n)]
    /\ isHead' = PushHead(chain', Installed \cup {n})
    /\ isTail' = PushTail(chain', Installed \cup {n})
    /\ installed' = [installed EXCEPT ![n] = TRUE]
    /\ settled' = [Unsettle(isHead', isTail') EXCEPT ![n] = "run"]
    /\ neighbors' = [neighbors EXCEPT ![n][NeighborPosTail] =
                        [client |-> NilClient, path |-> reply'[n].Tail]]
    /\ pc' = [pc EXCEPT ![n] = IF reply'[n].IsTail THEN "connprev" ELSE "conntail"]
    /\ pre' = [pre EXCEPT ![n] = Snapshot(n)]
    /\ UNCHANGED <<startup, err, conns, dataVars, chanVars, callVars, cuVars,
                   boundVars, evVars>>

\* transport.Connect(n.CdrPath) or cdrClient.Call("RPC.AddNode", ...) fails:
\* ConnectToCoordinator returns the error before it assigns anything.
CtcFail(n) ==
    /\ pc[n] = "addnode"
    /\ pc' = [pc EXCEPT ![n] = "ret"]
    /\ err' = [err EXCEPT ![n] = TRUE]
    /\ UNCHANGED <<chain, startup, reply, roleVars, neighbors, conns, dataVars,
                   chanVars, callVars, cuVars, boundVars, evVars, settled,
                   pre>>

\* if !reply.IsTail { connectToNode(reply.Tail, NeighborPosTail) }
CtcConnTail(n) ==
    /\ pc[n] = "conntail"
    /\ LET r == connectToNode(n, reply[n].Tail, NeighborPosTail) IN
        /\ neighbors' = [neighbors EXCEPT ![n] = r.nbrs]
        /\ conns' = [conns EXCEPT ![n] = r.conns]
        /\ pc' = [pc EXCEPT ![n] = IF r.ok THEN "connprev" ELSE "ret"]
        /\ err' = [err EXCEPT ![n] = ~r.ok]
    /\ UNCHANGED <<chain, startup, reply, roleVars, dataVars, chanVars,
                   callVars, cuVars, boundVars, evVars, settled, pre>>

\* if reply.Prev != "" { connectToNode(reply.Prev, NeighborPosPrev); ... }
CtcConnPrev(n) ==
    /\ pc[n] = "connprev"
    /\ reply[n].Prev # NoPath
    /\ LET r == connectToNode(n, reply[n].Prev, NeighborPosPrev) IN
        /\ neighbors' = [neighbors EXCEPT ![n] = r.nbrs]
        /\ conns' = [conns EXCEPT ![n] = r.conns]
        /\ pc' = [pc EXCEPT ![n] = IF r.ok THEN "fwdcall" ELSE "ret"]
        /\ err' = [err EXCEPT ![n] = ~r.ok]
        /\ cu' = [cu EXCEPT ![n] = IF r.ok THEN "run" ELSE "none"]
        /\ cuOwn' = [cuOwn EXCEPT ![n] = IF r.ok THEN store[n] ELSE {}]
        /\ cuStable' = [cuStable EXCEPT ![n] = r.ok]
    /\ UNCHANGED <<chain, startup, reply, roleVars, dataVars, chanVars,
                   callVars, boundVars, evVars, settled, pre>>

\* else if n.neighbors[NeighborPosPrev].path != "" { ...client.Close() }
CtcDropPrev(n) ==
    /\ pc[n] = "connprev"
    /\ reply[n].Prev = NoPath
    /\ conns' = [conns EXCEPT ![n] =
                    IF neighbors[n][NeighborPosPrev].path # NoPath
                    THEN Close(@, neighbors[n][NeighborPosPrev].client) ELSE @]
    /\ pc' = [pc EXCEPT ![n] = "ret"]
    /\ err' = [err EXCEPT ![n] = FALSE]
    /\ UNCHANGED <<chain, startup, reply, roleVars, neighbors, dataVars,
                   chanVars, callVars, cuVars, boundVars, evVars, settled,
                   pre>>

(***************************************************************************)
(* fullPropagate: requestFwdPropagation, then requestBackPropagation       *)
(***************************************************************************)
\* requestFwdPropagation up to the reply: dirty := n.store.AllDirty();
\* args := propagateRequestFromItems(dirty);
\* (*client).Call("RPC.FwdPropagate", &args, &reply)
FwdCall(n) ==
    /\ pc[n] = "fwdcall"
    /\ args' = [args EXCEPT ![n] = propagateRequestFromItems(AllDirty(store[n]))]
    /\ LET nbr == neighbors[n][NeighborPosPrev]
           ok == Usable(n, nbr.client) /\ Listening(nbr.path) IN
        /\ rsp' = [rsp EXCEPT ![n] =
                      IF ok THEN AllNewerDirty(store[nbr.path], args'[n]) ELSE {}]
        /\ pc' = [pc EXCEPT ![n] = IF ok THEN "fwdapply" ELSE "ret"]
        /\ err' = [err EXCEPT ![n] = ~ok]
        /\ cu' = [cu EXCEPT ![n] = IF ok THEN "run" ELSE "err"]
    /\ UNCHANGED <<chain, startup, reply, roleVars, neighbors, conns, dataVars,
                   chanVars, cuOwn, cuStable, boundVars, evVars, settled, pre>>

\* A requestFwdPropagation whose write error does not stop fullPropagate.
FwdApplyThenBack(n) ==
    /\ pc[n] = "fwdapply"
    /\ \E f \in KeyOrders :
        LET r == writePropagated(store[n], InOrder(rsp[n], f, 1)) IN
        /\ store' = [store EXCEPT ![n] = r.store]
        /\ everDirty' = [everDirty EXCEPT ![n] = @ \cup (KV(r.store) \ KV(store[n]))]
        /\ cuStable' = IF r.store = store[n] THEN cuStable ELSE Touch(n)
        /\ pc' = [pc EXCEPT ![n] = "backcall"]
        /\ err' = [err EXCEPT ![n] = r.err]
        /\ cu' = [cu EXCEPT ![n] = "run"]
    /\ UNCHANGED <<chain, startup, reply, roleVars, neighbors, conns, latest,
                   chanVars, callVars, cuOwn, boundVars, evVars, settled, pre>>

\* return n.writePropagated(&reply)
FwdApply(n) ==
    /\ pc[n] = "fwdapply"
    /\ \E f \in KeyOrders :
        LET r == writePropagated(store[n], InOrder(rsp[n], f, 1)) IN
        /\ store' = [store EXCEPT ![n] = r.store]
        /\ everDirty' = [everDirty EXCEPT ![n] = @ \cup (KV(r.store) \ KV(store[n]))]
        /\ cuStable' = IF r.store = store[n] THEN cuStable ELSE Touch(n)
        /\ pc' = [pc EXCEPT ![n] = IF r.err THEN "ret" ELSE "backcall"]
        /\ err' = [err EXCEPT ![n] = r.err]
        /\ cu' = [cu EXCEPT ![n] = IF r.err THEN "err" ELSE "run"]
    /\ UNCHANGED <<chain, startup, reply, roleVars, neighbors, conns, latest,
                   chanVars, callVars, cuOwn, boundVars, evVars, settled, pre>>

\* requestBackPropagation up to the reply: committed := n.store.AllCommitted();
\* args := propagateRequestFromItems(committed);
\* (*client).Call("RPC.BackPropagate", &args, &reply)
BackCall(n) ==
    /\ pc[n] = "backcall"
    /\ args' = [args EXCEPT ![n] = propagateRequestFromItems(AllCommitted(store[n]))]
    /\ LET nbr == neighbors[n][NeighborPosPrev]
           ok == Usable(n, nbr.client) /\ Listening(nbr.path) IN
        /\ rsp' = [rsp EXCEPT ![n] =
                      IF ok THEN AllNewerCommitted(store[nbr.path], args'[n]) ELSE {}]
        /\ pc' = [pc EXCEPT ![n] = IF ok THEN "backapply" ELSE "ret"]
        /\ err' = [err EXCEPT ![n] = ~ok]
        /\ cu' = [cu EXCEPT ![n] = IF ok THEN "run" ELSE "err"]
    /\ UNCHANGED <<chain, startup, reply, roleVars, neighbors, conns, dataVars,
                   chanVars, cuOwn, cuStable, boundVars, evVars, settled, pre>>

\* return n.commitPropagated(&reply)
BackApply(n) ==
    /\ pc[n] = "backapply"
    /\ \E f \in KeyOrders :
        LET r == commitPropagated(store[n], InOrder(rsp[n], f, 1)) IN
        /\ store' = [store EXCEPT ![n] = r.store]
        /\ cuStable' = IF r.store = store[n] THEN cuStable ELSE Touch(n)
        /\ pc' = [pc EXCEPT ![n] = "ret"]
        /\ err' = [err EXCEPT ![n] = r.err]
        /\ cu' = [cu EXCEPT ![n] = IF r.err THEN "err" ELSE "ok"]
    /\ UNCHANGED <<chain, startup, reply, roleVars, neighbors, conns, latest,
                   everDirty, chanVars, callVars, cuOwn, boundVars, evVars,
                   settled, pre>>

\* The process of n is gone: its state is lost, the coordinator drops it from
\* the chain and tells the remaining members their roles.
Reset(n, to) ==
    /\ pc' = [pc EXCEPT ![n] = to]
    /\ chain' = Without(chain, n)
    /\ startup' = [startup EXCEPT ![n] = FALSE]
    /\ reply' = [reply EXCEPT ![n] = NoMeta]
    /\ err' = [err EXCEPT ![n] = FALSE]
    /\ isHead' = [PushHead(chain', Installed \ {n}) EXCEPT ![n] = FALSE]
    /\ isTail' = [PushTail(chain', Installed \ {n}) EXCEPT ![n] = FALSE]
    /\ installed' = [installed EXCEPT ![n] = FALSE]
    /\ settled' = [Unsettle(isHead', isTail') EXCEPT ![n] = "no"]
    /\ neighbors' = [neighbors EXCEPT ![n] = [p \in Positions |-> NoNeighbor]]
    /\ conns' = [m \in Nodes |->
                    IF m = n THEN <<>>
                    ELSE [h \in 1..Len(conns[m]) |->
                            IF conns[m][h].to = n
                            THEN [conns[m][h] EXCEPT !.broken = TRUE]
                            ELSE conns[m][h]]]
    /\ store' = [store EXCEPT ![n] = {}]
    /\ latest' = [latest EXCEPT ![n] = [k \in Keys |-> 0]]
    /\ args' = [args EXCEPT ![n] = <<>>]
    /\ rsp' = [rsp EXCEPT ![n] = {}]
    /\ wq' = [wq EXCEPT ![n] = <<>>]
    /\ cq' = [cq EXCEPT ![n] = <<>>]
    /\ cu' = [cu EXCEPT ![n] = "none"]
    /\ cuOwn' = [cuOwn EXCEPT ![n] = {}]
    /\ cuStable' = [Touch(n) EXCEPT ![n] = FALSE]
    /\ everDirty' = [everDirty EXCEPT ![n] = {}]
    /\ pre' = [pre EXCEPT ![n] = NoPre]
    /\ ev' = [ev EXCEPT ![n] = NoEvent]

\* A ListenAndServe that leaves the server running when
\* ConnectToCoordinator fails.
CtcReturnKeepServing(n) ==
    /\ pc[n] = "ret"
    /\ pc' = [pc EXCEPT ![n] = "ready"]
    /\ reply' = [reply EXCEPT ![n] = NoMeta]
    /\ err' = [err EXCEPT ![n] = FALSE]
    /\ args' = [args EXCEPT ![n] = <<>>]
    /\ rsp' = [rsp EXCEPT ![n] = {}]
    /\ cu' = [cu EXCEPT ![n] = "none"]
    /\ cuOwn' = [cuOwn EXCEPT ![n] = {}]
    /\ cuStable' = [cuStable EXCEPT ![n] = FALSE]
    /\ settled' = [settled EXCEPT ![n] = "no"]
    /\ pre' = [pre EXCEPT ![n] = NoPre]
    /\ UNCHANGED <<chain, startup, roleVars, neighbors, conns, dataVars,
                   chanVars, boundVars, evVars>>

\* ConnectToCoordinator returns.  In ListenAndServe an error shuts the server
\* down and the process ends.
CtcReturn(n) ==
    /\ pc[n] = "ret"
    /\ IF err[n] /\ startup[n]
       THEN /\ Reset(n, "exited")
            /\ UNCHANGED <<acked, boundVars, nEv>>
       ELSE /\ pc' = [pc EXCEPT ![n] = "ready"]
            /\ reply' = [reply EXCEPT ![n] = NoMeta]
            /\ err' = [err EXCEPT ![n] = FALSE]
            /\ args' = [args EXCEPT ![n] = <<>>]
            /\ rsp' = [rsp EXCEPT ![n] = {}]
            /\ cu' = [cu EXCEPT ![n] = "none"]
            /\ cuOwn' = [cuOwn EXCEPT ![n] = {}]
            /\ cuStable' = [cuStable EXCEPT ![n] = FALSE]
            /\ pre' = [pre EXCEPT ![n] = NoPre]
            /\ settled' = [settled EXCEPT ![n] =
                    IF @ = "run" /\ ~err[n] /\ cu[n] = "ok" THEN "yes" ELSE "no"]
            /\ UNCHANGED <<chain, startup, roleVars, neighbors, conns,
                           dataVars, chanVars, boundVars, evVars>>

\* The process of a node dies.
Die(n, max) ==
    /\ Listening(n)
    /\ nCrash < max
    /\ nCrash' = nCrash + 1
    /\ Reset(n, "new")
    /\ UNCHANGED <<acked, nAnn, nEv>>

Crash(n) == Die(n, MaxCrash)

(***************************************************************************)
(* Write path (specification 4.2)                                          *)
(***************************************************************************)
Enqueue(q, to, m) ==
    IF to # NoPath /\ Listening(to) THEN [q EXCEPT ![to] = Append(@, m)] ELSE q

ClientWrite(n, k) ==
    /\ Serving(n) /\ isHead[n]
    /\ latest[n][k] < MaxVersion
    /\ LET v == latest[n][k] + 1
           m == [Key |-> k, Version |-> v] IN
        /\ latest' = [latest EXCEPT ![n][k] = v]
        /\ IF Has(store[n], k, v)
           THEN UNCHANGED <<store, everDirty, wq, acked, cuStable>>
           ELSE /\ everDirty' = [everDirty EXCEPT ![n] = @ \cup {<<k, v>>}]
                /\ cuStable' = Touch(n)
                /\ IF isTail[n]
                   THEN /\ store' = [store EXCEPT ![n] =
                                        StoreCommit(StoreWrite(@, k, v), k, v)]
                        /\ acked' = [acked EXCEPT ![k] = Max({@, v})]
                        /\ wq' = wq
                   ELSE /\ store' = [store EXCEPT ![n] = StoreWrite(@, k, v)]
                        /\ wq' = Enqueue(wq, Succ(n), m)
                        /\ acked' = acked
    /\ UNCHANGED <<chain, pc, startup, reply, err, roleVars, neighbors, conns,
                   callVars, cq, cu, cuOwn, boundVars, evVars, settled, pre>>

\* RPC Write: a dirty item forwarded by the predecessor.
RecvWrite(n) ==
    /\ Listening(n)
    /\ wq[n] # <<>>
    /\ LET m == Head(wq[n])
           rest == [wq EXCEPT ![n] = Tail(@)] IN
        IF isHead[n] \/ Has(store[n], m.Key, m.Version)
        THEN /\ wq' = rest
             /\ UNCHANGED <<store, latest, everDirty, cq, cuStable>>
        ELSE /\ latest' = [latest EXCEPT ![n][m.Key] = Max({@, m.Version})]
             /\ everDirty' = [everDirty EXCEPT ![n] = @ \cup {<<m.Key, m.Version>>}]
             /\ cuStable' = Touch(n)
             /\ IF isTail[n]
                THEN /\ store' = [store EXCEPT ![n] =
                          StoreCommit(StoreWrite(@, m.Key, m.Version), m.Key, m.Version)]
                     /\ cq' = Enqueue(cq, Pred(n), m)
                     /\ wq' = rest
                ELSE /\ store' = [store EXCEPT ![n] = StoreWrite(@, m.Key, m.Version)]
                     /\ wq' = Enqueue(rest, Succ(n), m)
                     /\ cq' = cq
    /\ UNCHANGED <<chain, pc, startup, reply, err, roleVars, neighbors, conns,
                   callVars, acked, cu, cuOwn, boundVars, evVars, settled,
                   pre>>

\* RPC Commit: a commit back-propagated by the successor.
RecvCommit(n) ==
    /\ Listening(n)
    /\ cq[n] # <<>>
    /\ LET m == Head(cq[n])
           rest == [cq EXCEPT ![n] = Tail(@)] IN
        IF ~Has(store[n], m.Key, m.Version)
        THEN /\ cq' = rest
             /\ UNCHANGED <<store, acked, cuStable>>
        ELSE /\ store' = [store EXCEPT ![n] = StoreCommit(@, m.Key, m.Version)]
             /\ cuStable' = IF store'[n] = store[n] THEN cuStable ELSE Touch(n)
             /\ IF isHead[n]
                THEN /\ acked' = [acked EXCEPT ![m.Key] = Max({@, m.Version})]
                     /\ cq' = rest
                ELSE /\ acked' = acked
                     /\ cq' = Enqueue(rest, Pred(n), m)
    /\ UNCHANGED <<chain, pc, startup, reply, err, roleVars, neighbors, conns,
                   latest, everDirty, callVars, wq, cu, cuOwn, boundVars,
                   evVars,
                   settled, pre>>

Next ==
    \/ \E n \in Nodes : CtcConnect(n)
    \/ \E n \in Nodes : CtcAddNode(n)
    \/ \E n \in Nodes : CtcFail(n)
    \/ \E n \in Nodes : CtcConnTail(n)
    \/ \E n \in Nodes : CtcConnPrev(n)
    \/ \E n \in Nodes : CtcDropPrev(n)
    \/ \E n \in Nodes : FwdCall(n)
    \/ \E n \in Nodes : FwdApply(n)
    \/ \E n \in Nodes : BackCall(n)
    \/ \E n \in Nodes : BackApply(n)
    \/ \E n \in Nodes : CtcReturn(n)
    \/ \E n \in Nodes : Crash(n)
    \/ \E n \in Nodes, k \in Keys : ClientWrite(n, k)
    \/ \E n \in Nodes : RecvWrite(n)
    \/ \E n \in Nodes : RecvCommit(n)

Spec == Init /\ [][Next]_vars

\* The goroutine that runs ConnectToCoordinator in ListenAndServe is
\* scheduled: its return, and the shutdown that follows an error, happen.
SpecLive == Spec /\ \A n \in Nodes : WF_vars(CtcReturn(n))

(***************************************************************************)
(* The neighbor registry alone: announcements and reconnections of nodes   *)
(* that serve no write and do not crash.                                   *)
(***************************************************************************)
Reconnect(n) == Announce(n, MaxReconnect)

NextConn ==
    \/ \E n \in Nodes : Reconnect(n)
    \/ \E n \in Nodes : CtcAddNode(n)
    \/ \E n \in Nodes : CtcFail(n)
    \/ \E n \in Nodes : CtcConnTail(n)
    \/ \E n \in Nodes : CtcConnPrev(n)
    \/ \E n \in Nodes : CtcDropPrev(n)
    \/ \E n \in Nodes : FwdCall(n)
    \/ \E n \in Nodes : FwdApply(n)
    \/ \E n \in Nodes : BackCall(n)
    \/ \E n \in Nodes : BackApply(n)
    \/ \E n \in Nodes : CtcReturn(n)

SpecConn == Init /\ [][NextConn]_vars

(***************************************************************************)
(* The neighbor registry of nodes that serve no write, under membership    *)
(* changes: nodes die, rejoin and reconnect.                               *)
(***************************************************************************)
Churn(n) == Die(n, MaxChurn)

NextChurn ==
    \/ \E n \in Nodes : Reconnect(n)
    \/ \E n \in Nodes : CtcAddNode(n)
    \/ \E n \in Nodes : CtcFail(n)
    \/ \E n \in Nodes : CtcConnTail(n)
    \/ \E n \in Nodes : CtcConnPrev(n)
    \/ \E n \in Nodes : CtcDropPrev(n)
    \/ \E n \in Nodes : FwdCall(n)
    \/ \E n \in Nodes : FwdApply(n)
    \/ \E n \in Nodes : BackCall(n)
    \/ \E n \in Nodes : BackApply(n)
    \/ \E n \in Nodes : CtcReturn(n)
    \/ \E n \in Nodes : Churn(n)

SpecChurn == Init /\ [][NextChurn]_vars

(***************************************************************************)
(* The write path under membership changes: nodes that serve writes die    *)
(* and their new processes join again.                                     *)
(***************************************************************************)
\* ListenAndServe of a new process calls ConnectToCoordinator.  The
\* coordinator appends the joiner to the chain, so its reply has IsTail set
\* and the tail connect is skipped.
Rejoin(n) == pc[n] = "new" /\ Reconnect(n)

NextRejoin ==
    \/ \E n \in Nodes : Rejoin(n)
    \/ \E n \in Nodes : CtcAddNode(n)
    \/ \E n \in Nodes : CtcConnPrev(n)
    \/ \E n \in Nodes : CtcDropPrev(n)
    \/ \E n \in Nodes : FwdCall(n)
    \/ \E n \in Nodes : FwdApply(n)
    \/ \E n \in Nodes : BackCall(n)
    \/ \E n \in Nodes : BackApply(n)
    \/ \E n \in Nodes : CtcReturn(n)
    \/ \E n \in Nodes : Churn(n)
    \/ \E n \in Nodes, k \in Keys : ClientWrite(n, k)
    \/ \E n \in Nodes : RecvWrite(n)
    \/ \E n \in Nodes : RecvCommit(n)

SpecRejoin == Init /\ [][NextRejoin]_vars

(***************************************************************************)
(* A coordinator push (UpdateNeighbor) handled by the RPC server while     *)
(* ConnectToCoordinator may be running: connectToNode line by line.  The   *)
(* node takes no lock (Node.mu is never locked).                           *)
(***************************************************************************)
\* The coordinator pushes the neighbor of position pos to n.
EvStart(n, pos) ==
    LET path == IF pos = NeighborPosPrev THEN Pred(n) ELSE TailNode IN
    /\ Serving(n) /\ ev[n].pc = "idle"
    /\ nEv < MaxEvents
    /\ path \notin {NoPath, n}
    /\ nEv' = nEv + 1
    /\ ev' = [ev EXCEPT ![n] = [NoEvent EXCEPT !.pc = "connect", !.path = path,
                                                !.pos = pos]]
    /\ UNCHANGED <<chain, pc, startup, reply, err, roleVars, neighbors, conns,
                   dataVars, chanVars, callVars, cuVars, boundVars, settled,
                   pre>>

\* client, err := n.transport.Connect(path); if err != nil { return err }
EvConnect(n) ==
    /\ ev[n].pc = "connect"
    /\ IF Listening(ev[n].path)
       THEN /\ conns' = [conns EXCEPT ![n] =
                            Append(@, [pos |-> ev[n].pos, to |-> ev[n].path,
                                       closes |-> 0, broken |-> FALSE])]
            /\ ev' = [ev EXCEPT ![n].pc = "read", ![n].client = Len(conns'[n])]
       ELSE /\ ev' = [ev EXCEPT ![n] = NoEvent]
            /\ conns' = conns
    /\ UNCHANGED <<chain, pc, startup, reply, err, roleVars, neighbors,
                   dataVars, chanVars, callVars, cuVars, boundVars, nEv, settled,
                   pre>>

\* nbr := n.neighbors[pos]
EvRead(n) ==
    /\ ev[n].pc = "read"
    /\ ev' = [ev EXCEPT ![n].pc = "close", ![n].nbr = neighbors[n][ev[n].pos]]
    /\ UNCHANGED <<chain, pc, startup, reply, err, roleVars, neighbors, conns,
                   dataVars, chanVars, callVars, cuVars, boundVars, nEv, settled,
                   pre>>

\* if nbr.client != nil { nbr.client.Close() }
EvClose(n) ==
    /\ ev[n].pc = "close"
    /\ conns' = [conns EXCEPT ![n] =
                    IF ev[n].nbr.client # NilClient
                    THEN Close(@, ev[n].nbr.client) ELSE @]
    /\ ev' = [ev EXCEPT ![n].pc = "install"]
    /\ UNCHANGED <<chain, pc, startup, reply, err, roleVars, neighbors,
                   dataVars, chanVars, callVars, cuVars, boundVars, nEv, settled,
                   pre>>

\* n.neighbors[pos] = neighbor{client: client, path: path}; return nil
EvInstall(n) ==
    /\ ev[n].pc = "install"
    /\ neighbors' = [neighbors EXCEPT ![n][ev[n].pos] =
                        [client |-> ev[n].client, path |-> ev[n].path]]
    /\ ev' = [ev EXCEPT ![n] = NoEvent]
    /\ UNCHANGED <<chain, pc, startup, reply, err, roleVars, conns,
                   dataVars, chanVars, callVars, cuVars, boundVars, nEv, settled,
                   pre>>

NextRace ==
    \/ \E n \in Nodes : Reconnect(n)
    \/ \E n \in Nodes : CtcAddNode(n)
    \/ \E n \in Nodes : CtcFail(n)
    \/ \E n \in Nodes : CtcConnTail(n)
    \/ \E n \in Nodes : CtcConnPrev(n)
    \/ \E n \in Nodes : CtcDropPrev(n)
    \/ \E n \in Nodes : FwdCall(n)
    \/ \E n \in Nodes : FwdApply(n)
    \/ \E n \in Nodes : BackCall(n)
    \/ \E n \in Nodes : BackApply(n)
    \/ \E n \in Nodes : CtcReturn(n)
    \/ \E n \in Nodes, pos \in Positions : EvStart(n, pos)
    \/ \E n \in Nodes : EvConnect(n)
    \/ \E n \in Nodes : EvRead(n)
    \/ \E n \in Nodes : EvClose(n)
    \/ \E n \in Nodes : EvInstall(n)

SpecRace == Init /\ [][NextRace]_vars

(***************************************************************************)
(* Read path (specification 4.3)                                           *)
(***************************************************************************)
\* RPC LatestVersion asked by n: the tail's latest committed version of k,
\* -1 when the tail cannot be reached.
TailVersion(n, k) ==
    IF isTail[n] THEN Max(CommittedOf(store[n], k))
    ELSE IF TailNode # NoPath /\ Listening(TailNode)
         THEN Max(CommittedOf(store[TailNode], k))
         ELSE -1

\* The version a Read of k served by n returns now: 0 is not-found, -1 a
\* transport failure.
ReadAt(n, k) ==
    LET r == StoreRead(store[n], k) IN
    IF r > 0 /\ latest[n][k] <= r THEN r
    ELSE IF r = 0 /\ latest[n][k] = 0 THEN 0
    ELSE TailVersion(n, k)

PrevOf(n) == neighbors[n][NeighborPosPrev].path

Unclosed(n, pos) ==
    {h \in 1..Len(conns[n]) : conns[n][h].pos = pos /\ conns[n][h].closes = 0}

IsPrefix(S, T) == S \subseteq T /\ \A x \in T \ S : x > Max(S)

(***************************************************************************)
(* Claims                                                                  *)
(***************************************************************************)

\* C1: a read served by any node that has installed its role returns the
\* value of the last acknowledged write of the key, or of a later write;
\* also while the node's catch-up has not finished.
C1_LinearizableReads ==
    \A n \in Nodes, k \in Keys :
        Serving(n) => (ReadAt(n, k) = -1 \/ ReadAt(n, k) >= acked[k])

\* C2: in every state, for every key, the committed versions at any replica
\* are a prefix, in version order, of the committed versions at the node
\* holding the tail role.
C2_CommittedPrefix ==
    \A t \in Nodes, n \in Nodes, k \in Keys :
        (Serving(t) /\ isTail[t] /\ t = TailNode /\ Serving(n))
            => IsPrefix(CommittedOf(store[n], k), CommittedOf(store[t], k))

\* C3: when fullPropagate returned without error against a predecessor whose
\* store did not change, then for every key both nodes held, every item dirty
\* at the predecessor is in the node's store and every version committed at
\* the predecessor is committed in the node's store.
C3_CatchUpConvergence ==
    \A n \in Nodes, k \in Keys :
        (pc[n] = "ret" /\ cu[n] = "ok" /\ cuStable[n]
            /\ VersionsOf(cuOwn[n], k) # {}
            /\ VersionsOf(store[PrevOf(n)], k) # {})
        => /\ DirtyOf(store[PrevOf(n)], k) \subseteq VersionsOf(store[n], k)
           /\ CommittedOf(store[PrevOf(n)], k) \subseteq CommittedOf(store[n], k)

\* C4: a node whose store is empty and that catches up with a predecessor
\* holding committed items completes the catch-up without error, and then
\* holds exactly the predecessor's committed items and all its dirty items.
C4_EmptyJoiner ==
    \A n \in Nodes :
        (pc[n] = "ret" /\ cu[n] \in {"ok", "err"} /\ cuStable[n]
            /\ cuOwn[n] = {} /\ AllCommitted(store[PrevOf(n)]) # {})
        => /\ cu[n] = "ok"
           /\ AllCommitted(store[n]) = AllCommitted(store[PrevOf(n)])
           /\ KV(AllDirty(store[PrevOf(n)])) \subseteq KV(AllDirty(store[n]))

\* C5: in every state of a node, latest[key] is at least every version of
\* the key present in the node's store.
C5_LatestCoversStore ==
    \A n \in Nodes, k \in Keys : latest[n][k] >= Max(VersionsOf(store[n], k))

\* C6: a node whose installed role is tail and that has no operation in
\* progress, its ConnectToCoordinator and catch-up having returned without
\* error, holds no dirty item.
C6_TailHoldsNoDirty ==
    \A n \in Nodes :
        (Serving(n) /\ isTail[n] /\ settled[n] = "yes" /\ pc[n] = "ready"
            /\ wq[n] = <<>> /\ cq[n] = <<>>)
        => AllDirty(store[n]) = {}

\* C7: for each position at most one connection opened for it is unclosed,
\* and a record is replaced only after the connection it held was closed.
C7_OneConnectionPerPosition ==
    /\ [](\A n \in Nodes, pos \in Positions : Cardinality(Unclosed(n, pos)) <= 1)
    /\ [][\A n \in Nodes, pos \in Positions :
            (neighbors'[n][pos] # neighbors[n][pos]
                /\ neighbors[n][pos].client # NilClient /\ pc'[n] # "new"
                /\ pc'[n] # "exited")
            => conns'[n][neighbors[n][pos].client].closes > 0]_vars

\* C8: catch-up removes no item and turns no committed item dirty, and a
\* node holding (k, v1) committed that catches up with a predecessor holding
\* a newer uncommitted (k, v2) ends holding (k, v1) committed and (k, v2)
\* dirty.
C8_CatchUpPreserves ==
    \A n \in Nodes :
        (pc[n] = "ret" /\ cu[n] \in {"ok", "err"})
        => /\ \A i \in cuOwn[n] :
                /\ Has(store[n], i.Key, i.Version)
                /\ i.Committed => i \in store[n]
           /\ \A k \in Keys, v1 \in 1..MaxVersion, v2 \in 1..MaxVersion :
                (v1 < v2 /\ cuStable[n] /\ Item(k, v1, TRUE) \in cuOwn[n]
                    /\ VersionsOf(cuOwn[n], k) = {v1}
                    /\ Item(k, v2, FALSE) \in store[PrevOf(n)])
                => /\ Item(k, v1, TRUE) \in store[n]
                   /\ Item(k, v2, FALSE) \in store[n]

\* C9: at every replica a (key, version) is committed only if Store.Write
\* stored it dirty at that replica before; commitPropagated creates no item.
C9_DirtyBeforeCommitted ==
    \A n \in Nodes : KV(AllCommitted(store[n])) \subseteq everDirty[n]

\* C9 witness: commitPropagated was handed a version the store did not hold.
C9_Witness ==
    \E n \in Nodes :
        /\ pc[n] = "ret" /\ cu[n] = "err"
        /\ \E i \in rsp[n] : i.Committed /\ ~Has(store[n], i.Key, i.Version)

\* C10: at every replica the versions of a key written into the store, in
\* arrival order, strictly increase; catch-up writes no version lower than
\* or equal to one the replica already stored.
C10_MonotonicVersions ==
    [][\A n \in Nodes, k \in Keys :
        (isHead[n] => latest'[n][k] = latest[n][k])
        => \A v \in VersionsOf(store'[n], k) \ VersionsOf(store[n], k) :
                v > Max(VersionsOf(store[n], k))]_vars

\* C11: when ConnectToCoordinator fails during ListenAndServe, the node's
\* server is shut down and ListenAndServe returns: the node leaves the
\* failed call only by ceasing to serve, and it does leave it.
C11_FatalStartupFailure ==
    /\ [][\A n \in Nodes :
            (pc[n] = "ret" /\ err[n] /\ startup[n] /\ pc'[n] # "ret")
            => pc'[n] \in {"exited", "new"}]_vars
    /\ \A n \in Nodes :
            (pc[n] = "ret" /\ err[n] /\ startup[n]) ~> (pc[n] \in {"exited", "new"})

\* C11 witness: a node whose ListenAndServe has shut the server down after
\* a failed ConnectToCoordinator, another node still running.
C11_Witness ==
    \E n \in Nodes, m \in Nodes : pc[n] = "exited" /\ Serving(m)

\* C12: in fullPropagate the BackPropagate request is sent only after the
\* FwdPropagate reply was written to the store without error; when forward
\* propagation fails, the failing step commits nothing and no BackPropagate
\* request or commit follows in that call.
C12_CatchUpOrder ==
    [][\A n \in Nodes :
        /\ (pc'[n] = "backcall" /\ pc[n] # "backcall")
            => /\ pc[n] = "fwdapply" /\ ~err'[n]
               /\ KV(rsp[n]) \subseteq KV(store'[n])
        /\ (pc'[n] = "backapply" /\ pc[n] # "backapply") => pc[n] = "backcall"
        /\ (pc[n] \in {"fwdcall", "fwdapply"} /\ pc'[n] = "ret")
            => err'[n] /\ AllCommitted(store'[n]) = AllCommitted(store[n])
        /\ pc[n] = "ret" => pc'[n] \notin {"backcall", "backapply"}]_vars

\* C12 witness: forward propagation failed on a store write; the call is
\* about to return the error.
C12_Witness ==
    \E n \in Nodes :
        /\ pc[n] = "ret" /\ err[n] /\ cu[n] = "err"
        /\ \E i \in rsp[n] : ~i.Committed /\ Has(store[n], i.Key, i.Version)

\* C13: writePropagated is never handed a (key, version) the node's store
\* already holds, and so forward propagation never fails with a version
\* conflict.
C13_NoDuplicateWrite ==
    \A n \in Nodes :
        /\ pc[n] = "fwdapply"
            => \A i \in rsp[n] : ~Has(store[n], i.Key, i.Version)
        /\ (pc[n] = "ret" /\ cu[n] = "err")
            => \A i \in AllDirty(rsp[n]) : ~Has(store[n], i.Key, i.Version)

\* C14: handling a coordinator reply, the node starts catch-up exactly when
\* the reply's predecessor path is non-empty and differs from the path of
\* the predecessor installed; the same predecessor, or none, starts none.
C14_CatchUpOnPredecessorChange ==
    [][\A n \in Nodes :
        (pc[n] = "connprev" /\ pc'[n] \in {"fwdcall", "ret"} /\ ~err'[n])
        => (pc'[n] = "fwdcall"
            <=> (reply[n].Prev # NoPath /\ reply[n].Prev # PrevOf(n)))]_vars

\* C15: when ConnectToCoordinator has received a reply with an empty
\* predecessor path while a predecessor connection is installed, the
\* connection is closed before the call returns, and the call sends no
\* FwdPropagate or BackPropagate request.
C15_HeadDropsPredecessor ==
    \A n \in Nodes :
        (pc[n] = "ret" /\ reply[n].Tail # NoPath /\ reply[n].Prev = NoPath
            /\ neighbors[n][NeighborPosPrev].client # NilClient)
        => /\ conns[n][neighbors[n][NeighborPosPrev].client].closes >= 1
           /\ cu[n] = "none" /\ args[n] = <<>> /\ rsp[n] = {}

\* C16: reconfiguration events have exclusive access to the role bits and
\* the neighbor table: with two events handled at once no connection is
\* closed twice, no opened connection is left both unclosed and
\* uninstalled once the events are over, and no event reads the neighbor
\* table while another has installed new role bits but not yet the
\* neighbor records.
C16_ExclusiveReconfiguration ==
    /\ [](\A n \in Nodes : \A h \in 1..Len(conns[n]) : conns[n][h].closes <= 1)
    /\ [](\A n \in Nodes :
            (pc[n] = "ready" /\ ev[n].pc = "idle")
            => \A h \in 1..Len(conns[n]) :
                    conns[n][h].closes = 0
                    => \E pos \in Positions : neighbors[n][pos].client = h)
    /\ [][\A n \in Nodes :
            (ev[n].pc = "read" /\ ev'[n].pc = "close")
            => pc[n] \notin {"conntail", "connprev"}]_vars

\* C17: across coordinator announcements no neighbor position holds a
\* connection that has been closed, and no connection is closed more than
\* once.
C17_RegistryHoldsLiveHandles ==
    \A n \in Nodes :
        /\ \A pos \in Positions :
                neighbors[n][pos].client # NilClient
                => conns[n][neighbors[n][pos].client].closes = 0
        /\ \A h \in 1..Len(conns[n]) : conns[n][h].closes <= 1

\* C18: whenever ConnectToCoordinator returns an error, the neighbor table
\* has the value it had before the call, and so have isHead and isTail
\* unless the coordinator has changed them meanwhile.
C18_FailedConnectIsAtomic ==
    \A n \in Nodes :
        (pc[n] = "ret" /\ err[n])
        => /\ neighbors[n] = pre[n].neighbors
           /\ settled[n] = "run"
                => isHead[n] = pre[n].isHead /\ isTail[n] = pre[n].isTail

\* C19: when transport.Connect fails inside connectToNode, the neighbor
\* record of the position stays as it was and the connection installed
\* there is not closed.
C19_FailedNeighborConnect ==
    [][\A n \in Nodes :
        (pc[n] \in {"conntail", "connprev"} /\ pc'[n] = "ret" /\ err'[n])
        => neighbors'[n] = neighbors[n] /\ conns'[n] = conns[n]]_vars

\* C19 witness: connecting to the predecessor failed while a connection to
\* it was installed; the connection is still open.
C19_Witness ==
    \E n \in Nodes :
        /\ pc[n] = "ret" /\ err[n] /\ cu[n] = "none"
        /\ reply[n].Prev # NoPath /\ ~Listening(reply[n].Prev)
        /\ neighbors[n][NeighborPosPrev].client # NilClient
        /\ conns[n][neighbors[n][NeighborPosPrev].client].closes = 0

\* C20: when fullPropagate has run undisturbed and returned without error
\* against a predecessor whose store does not change, running it again
\* returns no error and leaves the node's store as the first run left it.
C20_CatchUpIdempotent ==
    \A n \in Nodes, f \in KeyOrders :
        (/\ pc[n] = "ret" /\ cu[n] = "ok" /\ cuStable[n]
         /\ fullPropagate(cuOwn[n], store[PrevOf(n)], f)
                = [store |-> store[n], err |-> FALSE])
        => fullPropagate(store[n], store[PrevOf(n)], f)
                = [store |-> store[n], err |-> FALSE]

====
